---- MODULE Spec2Model ----
(***************************************************************************)
(* MindMitra: student wellness dashboard.                                  *)
(*                                                                         *)
(*   SpecMood  the mood classifier analyzeMood (MentalHealthCard.tsx)      *)
(*   SpecExam  the exam progress bar (ExamTrackerCard.tsx)                 *)
(*   SpecChat  the chat-assistant edge function                            *)
(*   SpecRls   the row level security policies of the migration            *)
(*   Spec      the dashboard: journal submit, quick action, add exam and   *)
(*             the wellness points refresh against the remote store        *)
(*   FairSpec  Spec, with every awaited remote call returning in the end   *)
(*                                                                         *)
(* Texts are TLA+ strings; TLC evaluates Len, SubSeq and \o on them.       *)
(***************************************************************************)
EXTENDS Integers, Sequences, FiniteSets, Bags, TLC

VARIABLES
    \* ---- SpecMood
    text,            \* the argument of analyzeMood
    analysis,        \* its return value, NoAnalysis before the call
    \* ---- SpecExam
    exam,            \* a row of public.exams as fetched by fetchExams
    shown,           \* what the card renders for it, NoBlock before render
    \* ---- SpecChat
    openAIApiKey,    \* whether OPENAI_API_KEY is set in the function's environment
    request,         \* the request being served
    serving,         \* the serve handler: pc, what it threw, what is in scope
    response,        \* the response sent, NoResponse before
    \* ---- SpecRls
    table,           \* the table of the public schema the requests go to
    rows,            \* its rows by position, NoRow where there is none
    audit,           \* history: the last request, who made it and its outcome
    \* ---- Spec: the remote store
    profile,         \* the user's row of public.profiles
    journal_entries, \* the user's rows of public.journal_entries
    exam_rows,       \* the user's rows of public.exams
    \* ---- Spec: Dashboard
    wellnessPoints,  \* the displayed points
    dashLoading,     \* Dashboard loading; the cards mount once it is false
    refresh,         \* fetchWellnessPoints calls in flight, per awaited call
    \* ---- Spec: MentalHealthCard
    journalText, currentMood, messages, isLoading,
    journal,         \* handleJournalSubmit: pc and locals
    quick,           \* handleQuickAction: pc and locals
    moodFetch,       \* fetchLatestMood calls in flight
    \* ---- Spec: ExamTrackerCard and AddExamModal
    exams, isModalOpen, examFetch,
    formData, loading,
    submit,          \* AddExamModal handleSubmit: pc and locals
    \* ---- Spec: notifications and history
    toasts,          \* the bag of toasts raised
    invoked,         \* history: handler invocations per handler, and whether
                     \* one started while another was in flight
    ledger,          \* history: the wellness_points updates issued so far
    failures         \* history: the remote calls that failed so far

moodVars == <<text, analysis>>
examVars == <<exam, shown>>
storeVars == <<profile, journal_entries, exam_rows>>
dashVars == <<wellnessPoints, dashLoading, refresh>>
cardVars == <<journalText, currentMood, messages, isLoading, journal, quick, moodFetch>>
trackerVars == <<exams, isModalOpen, examFetch, formData, loading, submit>>
histVars == <<toasts, invoked, ledger>>
chatVars == <<openAIApiKey, request, serving, response>>
rlsVars == <<table, rows, audit>>
pureVars == <<moodVars, examVars, chatVars, rlsVars>>
appVars == <<storeVars, dashVars, cardVars, trackerVars, histVars, failures>>
vars == <<pureVars, appVars>>

\* SQL NULL / JavaScript null: a nullable number n is Null or <<n>>
Null == <<>>

-----------------------------------------------------------------------------
(* Bounds *)

\* words per journal text
MaxWords == 3
\* marks 1..MaxMarks are enumerated besides the sample marks
MaxMarks == 4
\* handler invocations (journal submit, quick action, add exam) per behaviour
MaxActions == 2
\* rows per table under the row level security policies
MaxRows == 3
\* remote calls that fail (network, server) per behaviour
MaxFailures == 1

-----------------------------------------------------------------------------
(* Mood classifier: MentalHealthCard.tsx analyzeMood *)

Moods == {"Calm", "Motivated", "Happy", "Stressed", "Lonely"}

\* String.prototype.toLowerCase on one character
LowerChar(c) ==
    CASE c = "A" -> "a" [] c = "B" -> "b" [] c = "C" -> "c" [] c = "D" -> "d"
      [] c = "E" -> "e" [] c = "F" -> "f" [] c = "G" -> "g" [] c = "H" -> "h"
      [] c = "I" -> "i" [] c = "J" -> "j" [] c = "K" -> "k" [] c = "L" -> "l"
      [] c = "M" -> "m" [] c = "N" -> "n" [] c = "O" -> "o" [] c = "P" -> "p"
      [] c = "Q" -> "q" [] c = "R" -> "r" [] c = "S" -> "s" [] c = "T" -> "t"
      [] c = "U" -> "u" [] c = "V" -> "v" [] c = "W" -> "w" [] c = "X" -> "x"
      [] c = "Y" -> "y" [] c = "Z" -> "z" [] OTHER -> c

RECURSIVE toLowerCase(_)
toLowerCase(s) ==
    IF Len(s) = 0 THEN ""
    ELSE LowerChar(SubSeq(s, 1, 1)) \o toLowerCase(SubSeq(s, 2, Len(s)))

\* String.prototype.includes: kw occurs as a substring of s
includes(s, kw) ==
    \E i \in 1..(Len(s) - Len(kw) + 1) : SubSeq(s, i, i + Len(kw) - 1) = kw

\* Object.entries(moodKeywords): the entries in declaration order
moodKeywords == <<
    [mood |-> "Happy", keywords |-> <<"happy", "joy", "excited", "great",
        "awesome", "wonderful", "amazing", "fantastic", "good", "positive",
        "cheerful">>],
    [mood |-> "Calm", keywords |-> <<"calm", "peaceful", "relaxed", "serene",
        "tranquil", "quiet", "content", "balanced", "zen", "steady">>],
    [mood |-> "Motivated", keywords |-> <<"motivated", "determined", "focused",
        "energetic", "productive", "driven", "ambitious", "goal", "achieve",
        "success">>],
    [mood |-> "Stressed", keywords |-> <<"stressed", "anxious", "worried",
        "overwhelmed", "pressure", "deadline", "exam", "nervous", "tense",
        "frustrated">>],
    [mood |-> "Lonely", keywords |-> <<"lonely", "alone", "isolated", "sad",
        "depressed", "empty", "disconnected", "missing", "solitary",
        "withdrawn">>] >>

\* keywords.forEach(keyword => { if (lowerText.includes(keyword)) score += 1 })
RECURSIVE KeywordScore(_, _, _)
KeywordScore(lowerText, keywords, i) ==
    IF i > Len(keywords) THEN 0
    ELSE (IF includes(lowerText, keywords[i]) THEN 1 ELSE 0)
         + KeywordScore(lowerText, keywords, i + 1)

InitialDetectionHappy == [maxScore |-> 0, detectedMood |-> "Happy"]

\* let maxScore = 0; let detectedMood = "Calm"
InitialDetection == [maxScore |-> 0, detectedMood |-> "Calm"]

\* mutants of SelectMood: the first mood with a match wins / a tie replaces
SelectMoodFirstMatch(acc, mood, score) ==
    IF score > 0 /\ acc.maxScore = 0
    THEN [maxScore |-> score, detectedMood |-> mood]
    ELSE acc

SelectMoodTieReplaces(acc, mood, score) ==
    IF score >= acc.maxScore /\ score > 0
    THEN [maxScore |-> score, detectedMood |-> mood]
    ELSE acc

\* if (score > maxScore) { maxScore = score; detectedMood = mood }
SelectMood(acc, mood, score) ==
    IF score > acc.maxScore
    THEN [maxScore |-> score, detectedMood |-> mood]
    ELSE acc

\* Object.entries(moodKeywords).forEach(([mood, keywords]) => ...)
RECURSIVE DetectMood(_, _, _)
DetectMood(lowerText, acc, i) ==
    IF i > Len(moodKeywords) THEN acc
    ELSE DetectMood(lowerText,
                    SelectMood(acc, moodKeywords[i].mood,
                               KeywordScore(lowerText, moodKeywords[i].keywords, 1)),
                    i + 1)

moodScoreMapShifted ==
    [Calm |-> 1, Motivated |-> 2, Happy |-> 2, Stressed |-> 4, Lonely |-> 5]

moodScoreMap ==
    [Calm |-> 1, Motivated |-> 2, Happy |-> 3, Stressed |-> 4, Lonely |-> 5]

analyzeMood(t) ==
    LET detected == DetectMood(toLowerCase(t), InitialDetection, 1).detectedMood
    IN  [mood |-> detected, score |-> moodScoreMap[detected]]

\* the words journal texts are made of: keywords of each mood, in mixed case
\* and inside a longer word, white space, and a word with no keyword
Vocabulary == {"Joy", "good", "calm", "zen", "goal", "exam", "Saddle", " ", "ok"}

RECURSIVE TextsOfWords(_)
TextsOfWords(n) ==
    IF n = 0 THEN {""}
    ELSE {t \o w : t \in TextsOfWords(n - 1), w \in Vocabulary}

Texts == UNION {TextsOfWords(n) : n \in 0..MaxWords}

\* analyzeMood not called yet
NoAnalysis == [mood |-> "none", score |-> 0]

CallAnalyzeMood ==
    /\ analysis = NoAnalysis
    /\ analysis' = analyzeMood(text)
    /\ UNCHANGED text
-----------------------------------------------------------------------------
(* Exam progress: ExamTrackerCard.tsx.  A JavaScript number that is a       *)
(* quotient is kept exact as num/den with den > 0.                          *)

Rat(n, d) == [num |-> n, den |-> d]

RatLeq(a, b) == a.num * b.den <= b.num * a.den

\* Math.min
MathMin(a, b) == IF RatLeq(a, b) THEN a ELSE b

\* Math.round: the nearest integer, halves rounded up
MathRound(a) == (2 * a.num + a.den) \div (2 * a.den)

getProgressPercentageUnclamped(obtained, target) ==
    IF obtained = Null THEN Rat(0, 1)
    ELSE Rat(obtained[1] * 100, target)

\* if (obtained === null) return 0; return Math.min((obtained / target) * 100, 100)
getProgressPercentage(obtained, target) ==
    IF obtained = Null THEN Rat(0, 1)
    ELSE MathMin(Rat(obtained[1] * 100, target), Rat(100, 1))

\* the progress block of one exam card: caption, <Progress value>, and the
\* rounded percentage printed beside the caption
ProgressBlock(e) ==
    IF e.obtained_marks # Null
    THEN [caption |-> "Progress vs Target",
          value   |-> getProgressPercentage(e.obtained_marks, e.target_marks),
          percent |-> MathRound(getProgressPercentage(e.obtained_marks, e.target_marks))]
    ELSE [caption |-> "Target Progress",
          value   |-> Rat(e.target_marks * 100, e.max_marks),
          percent |-> MathRound(Rat(e.target_marks * 100, e.max_marks))]

\* marks of the enumerated rows: small ones and those of the documented cases
Marks == (1..MaxMarks) \cup {80, 95, 100}

\* rows the exams table admits: max_marks > 0, target_marks > 0,
\* obtained_marks NULL or >= 0
ExamRows ==
    [max_marks : Marks, target_marks : Marks,
     obtained_marks : {Null} \cup {<<n>> : n \in {0} \cup Marks}]

\* no row fetched / nothing rendered yet
NoExam == [max_marks |-> 0, target_marks |-> 0, obtained_marks |-> Null]
NoBlock == [caption |-> "none", value |-> Rat(0, 1), percent |-> 0]

RenderExam ==
    /\ shown = NoBlock
    /\ shown' = ProgressBlock(exam)
    /\ UNCHANGED exam

-----------------------------------------------------------------------------
(* The chat-assistant edge function (unnamed/part_001) *)

\* the moods a request may name: the five labels, another word, none
RequestMoods == Moods \cup {"Tired", "undefined"}

\* the requests served: method, whether req.json() can read the body, and
\* the body's message and mood
Requests ==
    [method : {"OPTIONS", "POST"}, readable : BOOLEAN,
     message : {"exam sad", "Joy"}, mood : RequestMoods]

NoResponse == [status |-> 0, kind |-> "none", response |-> ""]

\* new Response(JSON.stringify({ response }), { headers })
JsonResponse(content) == [status |-> 200, kind |-> "json", response |-> content]

\* what std/http serve answers when the handler's promise rejects
InternalServerError == [status |-> 500, kind |-> "text", response |-> "Internal Server Error"]

fallbackResponses ==
    [Calm      |-> "That's wonderful that you're feeling calm!",
     Motivated |-> "I love seeing your motivation!",
     Happy     |-> "Your happiness is contagious!",
     Stressed  |-> "I hear you, and stress before exams is completely normal.",
     Lonely    |-> "Feeling lonely can be tough, especially during study periods."]

DefaultFallback == "Thank you for sharing with me."

\* the names bound where the catch block runs: its own, the handler's
\* parameter and the module's.  message and mood are const in the try block
CatchScope ==
    {"error", "fallbackResponses", "fallbackMessage", "req", "openAIApiKey", "corsHeaders"}

ServingIdle == [pc |-> "received", threw |-> "nothing"]

\* fallbackResponses[mood] || default
FallbackMessage(mood) ==
    IF mood \in DOMAIN fallbackResponses THEN fallbackResponses[mood] ELSE DefaultFallback

\* catch (error) { ... }, mood being what the try block had bound to mood: the
\* read of mood is a ReferenceError when the name is not bound where the catch
\* block runs, and the handler's promise rejects
Catch(error, mood) ==
    /\ serving' = [pc |-> "done", threw |-> error]
    /\ response' = IF "mood" \in CatchScope
                   THEN JsonResponse(FallbackMessage(mood))
                   ELSE InternalServerError

\* if (req.method === 'OPTIONS') return new Response(null, { headers })
Preflight ==
    /\ serving.pc = "received"
    /\ request.method = "OPTIONS"
    /\ serving' = [serving EXCEPT !.pc = "done"]
    /\ response' = [status |-> 200, kind |-> "empty", response |-> ""]
    /\ UNCHANGED <<openAIApiKey, request>>

\* const { message, mood } = await req.json(); then the key test and the
\* call of the completion API
ReadRequest ==
    /\ serving.pc = "received"
    /\ request.method # "OPTIONS"
    /\ IF ~request.readable
       THEN Catch("req.json() failed", "undefined")
       ELSE IF ~openAIApiKey
       THEN Catch("OpenAI API key not configured", request.mood)
       ELSE /\ serving' = [serving EXCEPT !.pc = "fetch"]
            /\ UNCHANGED response
    /\ UNCHANGED <<openAIApiKey, request>>

\* how the completion API call ends
UpstreamOutcomes == {"ok", "not ok", "failed"}

\* the fetch returns: if (!response.ok) throw; else the first choice is returned
Upstream(outcome) ==
    /\ serving.pc = "fetch"
    /\ IF outcome = "ok"
       THEN /\ serving' = [serving EXCEPT !.pc = "done"]
            /\ response' = JsonResponse("aiResponse")
       ELSE Catch("OpenAI API error", request.mood)
    /\ UNCHANGED <<openAIApiKey, request>>

ChatIdle ==
    /\ openAIApiKey = FALSE
    /\ request = [method |-> "OPTIONS", readable |-> FALSE, message |-> "exam sad",
                  mood |-> "undefined"]
    /\ serving = ServingIdle
    /\ response = NoResponse

-----------------------------------------------------------------------------
(* Row level security (supabase/migrations): the four tables and their policies *)

Tables == {"profiles", "journal_entries", "exams", "notifications"}

\* the authenticated users; auth.uid() of a request is the user who makes it
Users == {"A", "B"}

\* CREATE POLICY ... ON public.<table> FOR <cmd> USING (<using>) WITH CHECK
\* (<check>); "own" is the expression auth.uid() = user_id, "" an absent clause
Policy(t, cmd, using, check) == [table |-> t, cmd |-> cmd, using |-> using, check |-> check]

Policies ==
    {Policy("profiles", "SELECT", "own", ""),
     Policy("profiles", "INSERT", "", "own"),
     Policy("profiles", "UPDATE", "own", ""),
     Policy("journal_entries", "SELECT", "own", ""),
     Policy("journal_entries", "INSERT", "", "own"),
     Policy("journal_entries", "UPDATE", "own", ""),
     Policy("journal_entries", "DELETE", "own", ""),
     Policy("exams", "SELECT", "own", ""),
     Policy("exams", "INSERT", "", "own"),
     Policy("exams", "UPDATE", "own", ""),
     Policy("exams", "DELETE", "own", ""),
     Policy("notifications", "SELECT", "own", ""),
     Policy("notifications", "UPDATE", "own", "")}

\* a row: its user_id and what its other columns hold
TableRows == [user_id : Users, val : {0, 1}]

NoRow == [user_id |-> "", val |-> 0]

\* the value of a policy expression for the request's user and a row
Holds(expr, uid, row) == expr = "own" /\ uid = row.user_id

\* ENABLE ROW LEVEL SECURITY: an existing row is visible to a command when a
\* policy for the command has a USING clause that holds (no policy: no row)
Using(uid, t, cmd, row) ==
    \E p \in Policies : p.table = t /\ p.cmd = cmd /\ Holds(p.using, uid, row)

\* a mutant of WithCheck: an UPDATE policy without WITH CHECK admits every new row
WithCheckNoDefault(uid, t, cmd, row) ==
    \E p \in Policies :
        /\ p.table = t /\ p.cmd = cmd
        /\ (p.check = "" /\ cmd = "UPDATE") \/ Holds(p.check, uid, row)

\* a new row is admitted when a policy for the command has a WITH CHECK clause
\* that holds; an UPDATE policy without WITH CHECK checks its USING clause
WithCheck(uid, t, cmd, row) ==
    \E p \in Policies :
        /\ p.table = t /\ p.cmd = cmd
        /\ Holds(IF p.check = "" /\ cmd = "UPDATE" THEN p.using ELSE p.check, uid, row)

Slots == 1..MaxRows

\* profiles.user_id is UNIQUE: no other row of profiles has the user_id
UniqueUserId(at, row) ==
    table = "profiles" => \A k \in Slots \ {at} : rows[k].user_id # row.user_id

Audit(by, cmd, old, new, granted) ==
    [by |-> by, cmd |-> cmd, old |-> old.user_id, new |-> new.user_id, granted |-> granted]

\* uid selects the row at position i
RlsSelect(uid, i) ==
    /\ rows[i] # NoRow
    /\ audit' = Audit(uid, "SELECT", rows[i], rows[i], Using(uid, table, "SELECT", rows[i]))
    /\ UNCHANGED <<table, rows>>

\* uid inserts row, which takes the first free position
RlsInsert(uid, row) ==
    \E i \in Slots :
        /\ rows[i] = NoRow
        /\ \A k \in 1..(i - 1) : rows[k] # NoRow
        /\ LET granted == WithCheck(uid, table, "INSERT", row) /\ UniqueUserId(i, row)
           IN  /\ rows' = IF granted THEN [rows EXCEPT ![i] = row] ELSE rows
               /\ audit' = Audit(uid, "INSERT", NoRow, row, granted)
        /\ UNCHANGED table

\* uid updates the row at position i to row
RlsUpdate(uid, i, row) ==
    /\ rows[i] # NoRow
    /\ LET granted == /\ Using(uid, table, "UPDATE", rows[i])
                      /\ WithCheck(uid, table, "UPDATE", row)
                      /\ UniqueUserId(i, row)
       IN  /\ rows' = IF granted THEN [rows EXCEPT ![i] = row] ELSE rows
           /\ audit' = Audit(uid, "UPDATE", rows[i], row, granted)
    /\ UNCHANGED table

\* uid deletes the row at position i
RlsDelete(uid, i) ==
    /\ rows[i] # NoRow
    /\ LET granted == Using(uid, table, "DELETE", rows[i])
       IN  /\ rows' = IF granted THEN [rows EXCEPT ![i] = NoRow] ELSE rows
           /\ audit' = Audit(uid, "DELETE", rows[i], NoRow, granted)
    /\ UNCHANGED table

NoAudit == [by |-> "", cmd |-> "", old |-> "", new |-> "", granted |-> FALSE]

RlsIdle ==
    /\ table = "profiles"
    /\ rows = [i \in Slots |-> NoRow]
    /\ audit = NoAudit

-----------------------------------------------------------------------------
(* The dashboard: common definitions *)

\* String.prototype.trim, on the white space the texts here contain
RECURSIVE trimStart(_)
trimStart(s) ==
    IF Len(s) > 0 /\ SubSeq(s, 1, 1) = " " THEN trimStart(SubSeq(s, 2, Len(s))) ELSE s

RECURSIVE trimEnd(_)
trimEnd(s) ==
    IF Len(s) > 0 /\ SubSeq(s, Len(s), Len(s)) = " "
    THEN trimEnd(SubSeq(s, 1, Len(s) - 1)) ELSE s

trim(s) == trimEnd(trimStart(s))

Digits == {"0", "1", "2", "3", "4", "5", "6", "7", "8", "9"}

DigitValue(c) ==
    CASE c = "0" -> 0 [] c = "1" -> 1 [] c = "2" -> 2 [] c = "3" -> 3 [] c = "4" -> 4
      [] c = "5" -> 5 [] c = "6" -> 6 [] c = "7" -> 7 [] c = "8" -> 8 [] c = "9" -> 9

\* the longest run of digits of s from position i on: its value and length
RECURSIVE DigitRun(_, _, _, _)
DigitRun(s, i, value, n) ==
    IF i <= Len(s) /\ SubSeq(s, i, i) \in Digits
    THEN DigitRun(s, i + 1, 10 * value + DigitValue(SubSeq(s, i, i)), n + 1)
    ELSE [value |-> value, length |-> n]

\* a JavaScript number that may be NaN: NaN or <<n>>
NaN == <<>>

\* parseInt(s): leading white space and a sign are skipped, then the longest
\* run of decimal digits is read and the rest of s is ignored; NaN without a digit
parseInt(s) ==
    LET t    == trimStart(s)
        neg  == Len(t) > 0 /\ SubSeq(t, 1, 1) = "-"
        from == IF Len(t) > 0 /\ SubSeq(t, 1, 1) \in {"-", "+"} THEN 2 ELSE 1
        run  == DigitRun(t, from, 0, 0)
    IN  IF run.length = 0 THEN NaN
        ELSE <<IF neg THEN 0 - run.value ELSE run.value>>

\* a > b on JavaScript numbers: false when either is NaN
\* a mutant of JsGreater: the operands are swapped
JsGreaterSwapped(a, b) == a # NaN /\ b # NaN /\ b[1] > a[1]

JsGreater(a, b) == a # NaN /\ b # NaN /\ a[1] > b[1]

\* (currentProfile?.wellness_points || 0) + delta, currentProfile being the
\* data of the profiles select: Null when the select failed
newPointsIgnoringCurrent(currentProfile, delta) == delta

newPoints(currentProfile, delta) ==
    (IF currentProfile = Null \/ currentProfile[1] = 0 THEN 0 ELSE currentProfile[1]) + delta

\* toast({title, description, variant})
Toast(title, description) == [title |-> title, description |-> description]

\* the toasts raised so far, with how often each was raised
Notify(toast) == toasts (+) SetToBag({toast})

\* the handlers and callbacks in flight
Idle == "idle"

\* a remote call returns: ok, or failed (the request did not reach the store
\* or the store answered with an error not due to the data)
Returns(ok) ==
    /\ ok \/ failures < MaxFailures
    /\ failures' = IF ok THEN failures ELSE failures + 1

\* profiles select ... .single(): the row's wellness_points, or Null when the
\* request fails or no row matches (PGRST116)
SelectPoints(ok) ==
    IF ok /\ profile.exists THEN <<profile.wellness_points>> ELSE Null

\* profiles update({wellness_points}).eq(user_id): sets the column of the
\* matching row when the request succeeds; no row matching is no error
UpdatePoints(ok, points) ==
    IF ok /\ profile.exists THEN [profile EXCEPT !.wellness_points = points] ELSE profile

\* history of one wellness_points update: who issued it, what its select
\* returned, what was stored before, what it asked to store, whether it succeeded
LedgerEntry(by, read, points, ok) ==
    [by |-> by, read |-> read, before |-> profile.wellness_points,
     points |-> points, ok |-> ok /\ profile.exists]

Invocations == invoked.journal + invoked.quick + invoked.exam

\* a handler that awaits a remote call
InFlight == journal.pc # Idle \/ quick.pc # Idle \/ submit.pc # Idle

\* onWellnessPointsUpdate(): handleWellnessPointsUpdate starts fetchWellnessPoints
StartRefresh(r) == [r EXCEPT !.select = @ + 1]

-----------------------------------------------------------------------------
(* Dashboard (unnamed/part_000): fetchWellnessPoints *)

\* finally { setLoading(false) }: the first time, the two cards mount and
\* their effects start fetchLatestMood and fetchExams
FinishFetch ==
    /\ dashLoading' = FALSE
    /\ moodFetch' = IF dashLoading THEN moodFetch + 1 ELSE moodFetch
    /\ examFetch' = IF dashLoading THEN examFetch + 1 ELSE examFetch

\* the profiles select of fetchWellnessPoints returns
FetchPointsSelect(ok) ==
    /\ refresh.select > 0
    /\ Returns(ok)
    /\ LET data == SelectPoints(ok)
       IN  IF data # Null
           THEN \* setWellnessPoints(data?.wellness_points || 0)
                /\ wellnessPoints' = data[1]
                /\ refresh' = [refresh EXCEPT !.select = @ - 1]
                /\ FinishFetch
           ELSE IF ok
           THEN \* error.code === 'PGRST116': no row, the profile is inserted
                /\ refresh' = [refresh EXCEPT !.select = @ - 1, !.insert = @ + 1]
                /\ UNCHANGED <<wellnessPoints, dashLoading, moodFetch, examFetch>>
           ELSE \* any other error is logged only
                /\ refresh' = [refresh EXCEPT !.select = @ - 1]
                /\ UNCHANGED wellnessPoints
                /\ FinishFetch
    /\ UNCHANGED <<pureVars, storeVars, journalText, currentMood, messages, isLoading,
                   journal, quick, exams, isModalOpen, formData, loading, submit,
                   histVars>>

\* the profiles insert of fetchWellnessPoints returns; user_id is UNIQUE
FetchPointsInsert(ok) ==
    /\ refresh.insert > 0
    /\ Returns(ok)
    /\ refresh' = [refresh EXCEPT !.insert = @ - 1]
    /\ IF ok /\ ~profile.exists
       THEN /\ profile' = [exists |-> TRUE, wellness_points |-> 0]
            /\ wellnessPoints' = 0
            /\ UNCHANGED toasts
       ELSE /\ toasts' = Notify(Toast("Error", "Failed to initialize user profile"))
            /\ UNCHANGED <<profile, wellnessPoints>>
    /\ FinishFetch
    /\ UNCHANGED <<pureVars, journal_entries, exam_rows, journalText, currentMood, messages,
                   isLoading, journal, quick, exams, isModalOpen, formData, loading,
                   submit, invoked, ledger>>

-----------------------------------------------------------------------------
(* MentalHealthCard *)

\* the greeting the message list starts with
Greeting == [type |-> "assistant", content |-> "Hello! I'm MindMitra"]

\* fetchLatestMood: the newest journal entry's mood_name, if any
FetchLatestMood(ok) ==
    /\ moodFetch > 0
    /\ Returns(ok)
    /\ moodFetch' = moodFetch - 1
    /\ currentMood' = IF ok /\ Len(journal_entries) > 0
                      THEN journal_entries[Len(journal_entries)].mood_name
                      ELSE currentMood
    /\ UNCHANGED <<pureVars, storeVars, dashVars, journalText, messages, isLoading, journal,
                   quick, trackerVars, histVars>>

\* what the user may type into the textarea (maxLength 500)
JournalTexts == {" ", "exam sad"}

\* what the card shows: the message list, the mood ring, the text area
CardView(m, mood, t) == [messages |-> m, currentMood |-> mood, journalText |-> t]

NoView == CardView(<<>>, "", "")

\* no journal submit in flight.  Besides pc and the handler's locals the
\* record keeps history of the submit: the view it started from (before), and,
\* kept after it has ended, the remote calls it issued (calls), how many of
\* them failed (failed) and how many error toasts it raised (errors)
JournalIdle ==
    [pc |-> Idle, text |-> "", mood |-> "Calm", score |-> 0, points |-> 0, read |-> Null,
     before |-> NoView, calls |-> <<>>, failed |-> 0, errors |-> 0]

\* the submit has ended, having issued one more call if more is not empty
JournalEnded(more, failed, errors) ==
    [JournalIdle EXCEPT !.calls = journal.calls \o more,
                        !.failed = journal.failed + failed,
                        !.errors = journal.errors + errors]

\* a mutant of JournalFailed: the catch block returns and isLoading stays set
JournalFailedStuck(message) ==
    /\ toasts' = Notify(Toast("Error", message))
    /\ isLoading' = isLoading
    /\ journal' = JournalEnded(<<>>, 1, 1)

\* catch (error) { toast Error } finally { setIsLoading(false) }
JournalFailed(message) ==
    /\ toasts' = Notify(Toast("Error", message))
    /\ isLoading' = FALSE
    /\ journal' = JournalEnded(<<>>, 1, 1)

\* the user types t (onChange: setJournalText) while no submit is in flight and
\* presses Share: handleJournalSubmit up to its first await.  With a blank
\* text the button is disabled and the handler returns at once
handleJournalSubmit(t) ==
    /\ ~dashLoading
    /\ ~isLoading
    /\ Len(trim(t)) > 0
    /\ Invocations < MaxActions
    /\ journalText' = t
    /\ isLoading' = TRUE
    /\ journal' = [pc |-> "insert", text |-> t,
                   mood |-> analyzeMood(t).mood,
                   score |-> analyzeMood(t).score,
                   points |-> 0, read |-> Null,
                   before |-> CardView(messages, currentMood, t),
                   calls |-> <<"journal_entries.insert">>, failed |-> 0, errors |-> 0]
    /\ invoked' = [invoked EXCEPT !.journal = @ + 1, !.overlapped = @ \/ InFlight]
    /\ UNCHANGED <<pureVars, failures, storeVars, dashVars, currentMood, messages, quick,
                   moodFetch, trackerVars, toasts, ledger>>

\* a mutant of JournalInsert: a failed insert is issued again
JournalInsertRetry(ok) ==
    /\ journal.pc = "insert"
    /\ Returns(ok)
    /\ IF ok
       THEN /\ journal_entries' = Append(journal_entries,
                    [content |-> journal.text, mood_score |-> journal.score,
                     mood_name |-> journal.mood])
            /\ journal' = [journal EXCEPT !.pc = "select",
                                          !.calls = Append(@, "profiles.select")]
            /\ UNCHANGED <<toasts, isLoading>>
       ELSE /\ journal' = [journal EXCEPT !.calls = Append(@, "journal_entries.insert"),
                                          !.failed = @ + 1]
            /\ UNCHANGED <<journal_entries, toasts, isLoading>>
    /\ UNCHANGED <<pureVars, profile, exam_rows, dashVars, journalText, currentMood, messages,
                   quick, moodFetch, trackerVars, invoked, ledger>>

\* a mutant of JournalInsert: the error of the insert is not looked at
JournalInsertIgnoringError(ok) ==
    /\ journal.pc = "insert"
    /\ Returns(ok)
    /\ IF ok
       THEN /\ journal_entries' = Append(journal_entries,
                    [content |-> journal.text, mood_score |-> journal.score,
                     mood_name |-> journal.mood])
            /\ journal' = [journal EXCEPT !.pc = "select",
                                          !.calls = Append(@, "profiles.select")]
            /\ UNCHANGED <<toasts, isLoading>>
       ELSE /\ journal' = [journal EXCEPT !.pc = "select",
                                          !.calls = Append(@, "profiles.select"),
                                          !.failed = @ + 1]
            /\ UNCHANGED <<journal_entries, toasts, isLoading>>
    /\ UNCHANGED <<pureVars, profile, exam_rows, dashVars, journalText, currentMood, messages,
                   quick, moodFetch, trackerVars, invoked, ledger>>

\* the journal_entries insert returns
JournalInsert(ok) ==
    /\ journal.pc = "insert"
    /\ Returns(ok)
    /\ IF ok
       THEN /\ journal_entries' = Append(journal_entries,
                    [content |-> journal.text, mood_score |-> journal.score,
                     mood_name |-> journal.mood])
            /\ journal' = [journal EXCEPT !.pc = "select",
                                          !.calls = Append(@, "profiles.select")]
            /\ UNCHANGED <<toasts, isLoading>>
       ELSE /\ JournalFailed("journal insert failed")
            /\ UNCHANGED journal_entries
    /\ UNCHANGED <<pureVars, profile, exam_rows, dashVars, journalText, currentMood, messages,
                   quick, moodFetch, trackerVars, invoked, ledger>>

\* the profiles select returns; its error is not looked at
JournalSelect(ok) ==
    /\ journal.pc = "select"
    /\ Returns(ok)
    /\ journal' = [journal EXCEPT !.pc = "update",
                                  !.read = SelectPoints(ok),
                                  !.points = newPoints(SelectPoints(ok), 5),
                                  !.calls = Append(@, "profiles.update"),
                                  !.failed = IF SelectPoints(ok) = Null THEN @ + 1 ELSE @]
    /\ UNCHANGED <<pureVars, storeVars, dashVars, journalText, currentMood, messages, isLoading,
                   quick, moodFetch, trackerVars, histVars>>

\* a mutant of JournalUpdate: the store adds 5 to what it holds
JournalUpdateAtomic(ok) ==
    /\ journal.pc = "update"
    /\ Returns(ok)
    /\ profile' = UpdatePoints(ok, profile.wellness_points + 5)
    /\ ledger' = Append(ledger, LedgerEntry("journal", journal.read, journal.points, ok))
    /\ IF ok
       THEN /\ messages' = Append(messages, [type |-> "user", content |-> journal.text])
            /\ journal' = [journal EXCEPT !.pc = "chat",
                                          !.calls = Append(@, "chat-assistant")]
            /\ UNCHANGED <<toasts, isLoading>>
       ELSE /\ JournalFailed("points update failed")
            /\ UNCHANGED messages
    /\ UNCHANGED <<pureVars, journal_entries, exam_rows, dashVars, journalText, currentMood,
                   quick, moodFetch, trackerVars, invoked>>

\* the profiles update returns; then the user message is shown and the chat
\* function invoked
JournalUpdate(ok) ==
    /\ journal.pc = "update"
    /\ Returns(ok)
    /\ profile' = UpdatePoints(ok, journal.points)
    /\ ledger' = Append(ledger, LedgerEntry("journal", journal.read, journal.points, ok))
    /\ IF ok
       THEN /\ messages' = Append(messages, [type |-> "user", content |-> journal.text])
            /\ journal' = [journal EXCEPT !.pc = "chat",
                                          !.calls = Append(@, "chat-assistant")]
            /\ UNCHANGED <<toasts, isLoading>>
       ELSE /\ JournalFailed("points update failed")
            /\ UNCHANGED messages
    /\ UNCHANGED <<pureVars, journal_entries, exam_rows, dashVars, journalText, currentMood,
                   quick, moodFetch, trackerVars, invoked>>

\* a mutant of JournalChat: a failed chat call takes the journal entry back
JournalChatRollback(ok) ==
    /\ journal.pc = "chat"
    /\ Returns(ok)
    /\ IF ok
       THEN /\ messages' = Append(messages, [type |-> "assistant", content |-> "response"])
            /\ currentMood' = journal.mood
            /\ journalText' = ""
            /\ refresh' = StartRefresh(refresh)
            /\ toasts' = Notify(Toast("Journal saved!", "+5 wellness points earned!"))
            /\ isLoading' = FALSE
            /\ journal' = JournalEnded(<<"fetchWellnessPoints">>, 0, 0)
            /\ UNCHANGED journal_entries
       ELSE /\ JournalFailed("chat-assistant failed")
            /\ journal_entries' = SubSeq(journal_entries, 1, Len(journal_entries) - 1)
            /\ UNCHANGED <<messages, currentMood, journalText, refresh>>
    /\ UNCHANGED <<pureVars, profile, exam_rows, wellnessPoints, dashLoading, quick, moodFetch,
                   trackerVars, invoked, ledger>>

\* supabase.functions.invoke("chat-assistant") returns
JournalChat(ok) ==
    /\ journal.pc = "chat"
    /\ Returns(ok)
    /\ IF ok
       THEN /\ messages' = Append(messages, [type |-> "assistant", content |-> "response"])
            /\ currentMood' = journal.mood
            /\ journalText' = ""
            /\ refresh' = StartRefresh(refresh)
            /\ toasts' = Notify(Toast("Journal saved!", "+5 wellness points earned!"))
            /\ isLoading' = FALSE
            /\ journal' = JournalEnded(<<"fetchWellnessPoints">>, 0, 0)
       ELSE /\ JournalFailed("chat-assistant failed")
            /\ UNCHANGED <<messages, currentMood, journalText, refresh>>
    /\ UNCHANGED <<pureVars, storeVars, wellnessPoints, dashLoading, quick, moodFetch,
                   trackerVars, invoked, ledger>>

\* the keys of actionMessages, and the ones pressed here
actionMessages == {"breathing", "meditation", "mindfulness"}

QuickActions == {"breathing", "mindfulness"}

\* no quick action in flight; before, calls, failed and errors as in JournalIdle
QuickIdle ==
    [pc |-> Idle, points |-> 0, read |-> Null,
     before |-> NoView, calls |-> <<>>, failed |-> 0, errors |-> 0]

\* handleQuickAction up to its first await; one quick action is followed at a
\* time
handleQuickAction(action) ==
    /\ ~dashLoading
    /\ quick.pc = Idle
    /\ Invocations < MaxActions
    /\ messages' = Append(messages, [type |-> "assistant", content |-> action])
    /\ quick' = [pc |-> "select", points |-> 0, read |-> Null,
                 before |-> CardView(messages, currentMood, journalText),
                 calls |-> <<"profiles.select">>, failed |-> 0, errors |-> 0]
    /\ invoked' = [invoked EXCEPT !.quick = @ + 1, !.overlapped = @ \/ InFlight]
    /\ UNCHANGED <<pureVars, failures, storeVars, dashVars, journalText, currentMood, isLoading, journal,
                   moodFetch, trackerVars, toasts, ledger>>

\* the profiles select returns
QuickSelect(ok) ==
    /\ quick.pc = "select"
    /\ Returns(ok)
    /\ quick' = [quick EXCEPT !.pc = "update",
                              !.read = SelectPoints(ok),
                              !.points = newPoints(SelectPoints(ok), 3),
                              !.calls = Append(@, "profiles.update"),
                              !.failed = IF SelectPoints(ok) = Null THEN @ + 1 ELSE @]
    /\ UNCHANGED <<pureVars, storeVars, dashVars, journalText, currentMood, messages, isLoading,
                   journal, moodFetch, trackerVars, histVars>>

\* the profiles update returns; its result is not looked at
QuickUpdate(ok) ==
    /\ quick.pc = "update"
    /\ Returns(ok)
    /\ profile' = UpdatePoints(ok, quick.points)
    /\ ledger' = Append(ledger, LedgerEntry("quick", quick.read, quick.points, ok))
    /\ refresh' = StartRefresh(refresh)
    /\ toasts' = Notify(Toast("Great job!", "+3 wellness points for practicing self-care!"))
    /\ quick' = [QuickIdle EXCEPT !.calls = Append(quick.calls, "fetchWellnessPoints"),
                                  !.failed = IF ok THEN quick.failed ELSE quick.failed + 1]
    /\ UNCHANGED <<pureVars, journal_entries, exam_rows, wellnessPoints, dashLoading, journalText,
                   currentMood, messages, isLoading, journal, moodFetch, trackerVars,
                   invoked>>

-----------------------------------------------------------------------------
(* ExamTrackerCard and AddExamModal *)

\* .order("date", { ascending: true }): rows by ascending date
RECURSIVE InsertByDate(_, _)
InsertByDate(sorted, row) ==
    IF Len(sorted) = 0 THEN <<row>>
    ELSE IF sorted[Len(sorted)].date <= row.date THEN Append(sorted, row)
    ELSE Append(InsertByDate(SubSeq(sorted, 1, Len(sorted) - 1), row), sorted[Len(sorted)])

RECURSIVE OrderByDate(_, _)
OrderByDate(data, n) ==
    IF n = 0 THEN <<>> ELSE InsertByDate(OrderByDate(data, n - 1), data[n])

\* fetchExams: the exams select returns
fetchExams(ok) ==
    /\ examFetch > 0
    /\ Returns(ok)
    /\ examFetch' = examFetch - 1
    /\ IF ok
       THEN exams' = OrderByDate(exam_rows, Len(exam_rows)) /\ UNCHANGED toasts
       ELSE toasts' = Notify(Toast("Error", "Failed to fetch exams")) /\ UNCHANGED exams
    /\ UNCHANGED <<pureVars, storeVars, dashVars, cardVars, isModalOpen, formData, loading, submit,
                   invoked, ledger>>

EmptyForm == [subject |-> "", date |-> Null, maxMarks |-> "", targetMarks |-> ""]

\* Cancel, or the dialog closing: the form is reset and onClose() called
handleClose ==
    /\ isModalOpen
    /\ formData' = EmptyForm
    /\ isModalOpen' = FALSE
    /\ UNCHANGED <<pureVars, failures, storeVars, dashVars, cardVars, exams, examFetch, loading, submit,
                   histVars>>

\* the forms of the dashboard specification: a valid one, one with the target
\* above the maximum, one with no date picked, one with the target in
\* exponent notation, one with zero marks
FilledForms ==
    {[subject |-> "Math", date |-> <<1>>, maxMarks |-> "5", targetMarks |-> "3"],
     [subject |-> "Math", date |-> <<1>>, maxMarks |-> "3", targetMarks |-> "5"],
     [subject |-> "Math", date |-> Null, maxMarks |-> "5", targetMarks |-> "3"],
     [subject |-> "Math", date |-> <<2>>, maxMarks |-> "5", targetMarks |-> "1e1"],
     [subject |-> "Math", date |-> <<2>>, maxMarks |-> "0", targetMarks |-> "0"]}

\* no submit in flight; before (the form submitted), calls, failed and errors
\* as in JournalIdle
SubmitIdle ==
    [pc |-> Idle, row |-> [subject |-> "", date |-> Null, max_marks |-> NaN,
                           target_marks |-> NaN],
     points |-> 0, read |-> Null,
     before |-> EmptyForm, calls |-> <<>>, failed |-> 0, errors |-> 0]

\* !formData.subject || !formData.date || !formData.maxMarks || !formData.targetMarks
MissingField(fd) ==
    fd.subject = "" \/ fd.date = Null \/ fd.maxMarks = "" \/ fd.targetMarks = ""

\* the user opens the dialog if it is closed (Add Exam: setIsModalOpen(true)),
\* fills the form with fd (onChange, onSelect: setFormData) and submits:
\* handleSubmit up to its first await.  The submit button is disabled while loading
handleSubmit(fd) ==
    /\ ~dashLoading
    /\ ~loading
    /\ Invocations < MaxActions
    /\ isModalOpen' = TRUE
    /\ formData' = fd
    /\ LET maxMarks    == parseInt(fd.maxMarks)
           targetMarks == parseInt(fd.targetMarks)
       IN  IF MissingField(fd)
           THEN /\ toasts' = Notify(Toast("Error", "Please fill in all fields"))
                /\ invoked' = [invoked EXCEPT !.exam = @ + 1]
                /\ UNCHANGED <<loading, submit>>
           ELSE IF JsGreater(targetMarks, maxMarks)
           THEN /\ toasts' = Notify(Toast("Error", "Target marks cannot be higher than maximum marks"))
                /\ invoked' = [invoked EXCEPT !.exam = @ + 1]
                /\ UNCHANGED <<loading, submit>>
           ELSE /\ loading' = TRUE
                /\ invoked' = [invoked EXCEPT !.exam = @ + 1, !.overlapped = @ \/ InFlight]
                /\ submit' = [pc |-> "insert",
                              row |-> [subject |-> fd.subject, date |-> fd.date,
                                       max_marks |-> maxMarks, target_marks |-> targetMarks],
                              points |-> 0, read |-> Null,
                              before |-> fd, calls |-> <<"exams.insert">>,
                              failed |-> 0, errors |-> 0]
                /\ UNCHANGED toasts
    /\ UNCHANGED <<pureVars, failures, storeVars, dashVars, cardVars, exams, examFetch, ledger>>

\* the exams table takes a row with max_marks and target_marks NOT NULL and > 0;
\* NaN is sent as null
ExamRowAdmitted(row) ==
    /\ row.max_marks # NaN /\ row.max_marks[1] > 0
    /\ row.target_marks # NaN /\ row.target_marks[1] > 0

\* catch (error) { toast Error } finally { setLoading(false) }
SubmitFailed(message) ==
    /\ toasts' = Notify(Toast("Error", message))
    /\ loading' = FALSE
    /\ submit' = [SubmitIdle EXCEPT !.calls = submit.calls,
                                    !.failed = submit.failed + 1,
                                    !.errors = submit.errors + 1]

\* the exams insert returns
ExamInsert(ok) ==
    /\ submit.pc = "insert"
    /\ Returns(ok)
    /\ IF ok /\ ExamRowAdmitted(submit.row)
       THEN /\ exam_rows' = Append(exam_rows,
                    [subject |-> submit.row.subject, date |-> submit.row.date[1],
                     max_marks |-> submit.row.max_marks[1],
                     target_marks |-> submit.row.target_marks[1],
                     obtained_marks |-> Null])
            /\ submit' = [submit EXCEPT !.pc = "select",
                                        !.calls = Append(@, "profiles.select")]
            /\ UNCHANGED <<toasts, loading>>
       ELSE /\ SubmitFailed("Failed to add exam")
            /\ UNCHANGED exam_rows
    /\ UNCHANGED <<pureVars, profile, journal_entries, dashVars, cardVars, exams, isModalOpen,
                   examFetch, formData, invoked, ledger>>

\* the profiles select returns; its error is not looked at
ExamSelect(ok) ==
    /\ submit.pc = "select"
    /\ Returns(ok)
    /\ submit' = [submit EXCEPT !.pc = "update",
                                !.read = SelectPoints(ok),
                                !.points = newPoints(SelectPoints(ok), 2),
                                !.calls = Append(@, "profiles.update"),
                                !.failed = IF SelectPoints(ok) = Null THEN @ + 1 ELSE @]
    /\ UNCHANGED <<pureVars, storeVars, dashVars, cardVars, exams, isModalOpen, examFetch, formData,
                   loading, histVars>>

\* the profiles update returns; its result is not looked at.  Then the toast,
\* the form reset and onExamAdded(): fetchExams(), onWellnessPointsUpdate()
\* and setIsModalOpen(false)
ExamUpdate(ok) ==
    /\ submit.pc = "update"
    /\ Returns(ok)
    /\ profile' = UpdatePoints(ok, submit.points)
    /\ ledger' = Append(ledger, LedgerEntry("exam", submit.read, submit.points, ok))
    /\ toasts' = Notify(Toast("Exam added successfully!",
                                      "+2 wellness points for staying organized!"))
    /\ formData' = EmptyForm
    /\ examFetch' = examFetch + 1
    /\ refresh' = StartRefresh(refresh)
    /\ isModalOpen' = FALSE
    /\ loading' = FALSE
    /\ submit' = [SubmitIdle EXCEPT
                      !.calls = submit.calls \o <<"fetchExams", "fetchWellnessPoints">>,
                      !.failed = IF ok THEN submit.failed ELSE submit.failed + 1]
    /\ UNCHANGED <<pureVars, journal_entries, exam_rows, wellnessPoints, dashLoading, cardVars,
                   exams, invoked>>

-----------------------------------------------------------------------------
(* The dashboard specifications *)

\* wellness_points a profile may hold when the dashboard opens
InitialPoints == {0, 7}

\* the dashboard of a user whose cards are not in use
AppIdle ==
    /\ profile = [exists |-> TRUE, wellness_points |-> 0]
    /\ journal_entries = <<>>
    /\ exam_rows = <<>>
    /\ wellnessPoints = 0
    /\ dashLoading = TRUE
    /\ refresh = [select |-> 0, insert |-> 0]
    /\ journalText = ""
    /\ currentMood = "Calm"
    /\ messages = <<Greeting>>
    /\ isLoading = FALSE
    /\ journal = JournalIdle
    /\ quick = QuickIdle
    /\ moodFetch = 0
    /\ exams = <<>>
    /\ isModalOpen = FALSE
    /\ examFetch = 0
    /\ formData = EmptyForm
    /\ loading = FALSE
    /\ submit = SubmitIdle
    /\ toasts = EmptyBag
    /\ invoked = [journal |-> 0, quick |-> 0, exam |-> 0, overlapped |-> FALSE]
    /\ ledger = <<>>
    /\ failures = 0

\* the Dashboard has mounted and its effect has started fetchWellnessPoints;
\* the profile row exists (signup trigger) or not
Init ==
    /\ text = ""
    /\ analysis = NoAnalysis
    /\ exam = NoExam
    /\ shown = NoBlock
    /\ ChatIdle
    /\ RlsIdle
    /\ profile \in {[exists |-> TRUE, wellness_points |-> p] : p \in InitialPoints}
                   \cup {[exists |-> FALSE, wellness_points |-> 0]}
    /\ journal_entries = <<>>
    /\ exam_rows = <<>>
    /\ wellnessPoints = 0
    /\ dashLoading = TRUE
    /\ refresh = [select |-> 1, insert |-> 0]
    /\ journalText = ""
    /\ currentMood = "Calm"
    /\ messages = <<Greeting>>
    /\ isLoading = FALSE
    /\ journal = JournalIdle
    /\ quick = QuickIdle
    /\ moodFetch = 0
    /\ exams = <<>>
    /\ isModalOpen = FALSE
    /\ examFetch = 0
    /\ formData = EmptyForm
    /\ loading = FALSE
    /\ submit = SubmitIdle
    /\ toasts = EmptyBag
    /\ invoked = [journal |-> 0, quick |-> 0, exam |-> 0, overlapped |-> FALSE]
    /\ ledger = <<>>
    /\ failures = 0

Next ==
    \/ \E ok \in BOOLEAN : FetchPointsSelect(ok)
    \/ \E ok \in BOOLEAN : FetchPointsInsert(ok)
    \/ \E ok \in BOOLEAN : FetchLatestMood(ok)
    \/ \E ok \in BOOLEAN : fetchExams(ok)
    \/ \E t \in JournalTexts : handleJournalSubmit(t)
    \/ \E ok \in BOOLEAN : JournalInsert(ok)
    \/ \E ok \in BOOLEAN : JournalSelect(ok)
    \/ \E ok \in BOOLEAN : JournalUpdate(ok)
    \/ \E ok \in BOOLEAN : JournalChat(ok)
    \/ \E action \in QuickActions : handleQuickAction(action)
    \/ \E ok \in BOOLEAN : QuickSelect(ok)
    \/ \E ok \in BOOLEAN : QuickUpdate(ok)
    \/ handleClose
    \/ \E fd \in FilledForms : handleSubmit(fd)
    \/ \E ok \in BOOLEAN : ExamInsert(ok)
    \/ \E ok \in BOOLEAN : ExamSelect(ok)
    \/ \E ok \in BOOLEAN : ExamUpdate(ok)

Spec == Init /\ [][Next]_vars

\* every remote call a journal submit or an add-exam submit awaits returns
\* in the end
Returning ==
    /\ WF_vars(\E ok \in BOOLEAN : JournalInsert(ok))
    /\ WF_vars(\E ok \in BOOLEAN : JournalSelect(ok))
    /\ WF_vars(\E ok \in BOOLEAN : JournalUpdate(ok))
    /\ WF_vars(\E ok \in BOOLEAN : JournalChat(ok))
    /\ WF_vars(\E ok \in BOOLEAN : ExamInsert(ok))
    /\ WF_vars(\E ok \in BOOLEAN : ExamSelect(ok))
    /\ WF_vars(\E ok \in BOOLEAN : ExamUpdate(ok))

FairSpec == Init /\ [][Next]_vars /\ Returning

-----------------------------------------------------------------------------
(* Specifications *)

\* analyzeMood applied to every text of up to MaxWords words
InitMood ==
    /\ text \in Texts
    /\ analysis = NoAnalysis
    /\ exam = NoExam
    /\ shown = NoBlock
    /\ ChatIdle
    /\ RlsIdle
    /\ AppIdle

NextMood == CallAnalyzeMood /\ UNCHANGED <<examVars, chatVars, rlsVars, appVars>>

SpecMood == InitMood /\ [][NextMood]_vars

\* the progress block rendered for every admissible row
InitExam ==
    /\ text = ""
    /\ analysis = NoAnalysis
    /\ exam \in ExamRows
    /\ shown = NoBlock
    /\ ChatIdle
    /\ RlsIdle
    /\ AppIdle

NextExam == RenderExam /\ UNCHANGED <<moodVars, chatVars, rlsVars, appVars>>

SpecExam == InitExam /\ [][NextExam]_vars

\* the function serving every request, with and without the API key
InitChat ==
    /\ text = ""
    /\ analysis = NoAnalysis
    /\ exam = NoExam
    /\ shown = NoBlock
    /\ openAIApiKey \in BOOLEAN
    /\ request \in Requests
    /\ serving = ServingIdle
    /\ response = NoResponse
    /\ RlsIdle
    /\ AppIdle

NextChat ==
    \/ Preflight /\ UNCHANGED <<moodVars, examVars, rlsVars, appVars>>
    \/ ReadRequest /\ UNCHANGED <<moodVars, examVars, rlsVars, appVars>>
    \/ \E outcome \in UpstreamOutcomes :
           Upstream(outcome) /\ UNCHANGED <<moodVars, examVars, rlsVars, appVars>>

SpecChat == InitChat /\ [][NextChat]_vars

\* each table in turn (a policy reads only the row it is applied to), holding
\* a row of each user, under every request of either user
InitRls ==
    /\ text = ""
    /\ analysis = NoAnalysis
    /\ exam = NoExam
    /\ shown = NoBlock
    /\ ChatIdle
    /\ table \in Tables
    /\ rows = [i \in Slots |-> IF i = 1 THEN [user_id |-> "A", val |-> 0]
                               ELSE IF i = 2 THEN [user_id |-> "B", val |-> 0]
                               ELSE NoRow]
    /\ audit = NoAudit
    /\ AppIdle

NextRls ==
    \/ \E uid \in Users, i \in Slots :
           RlsSelect(uid, i) /\ UNCHANGED <<moodVars, examVars, chatVars, appVars>>
    \/ \E uid \in Users, row \in TableRows :
           RlsInsert(uid, row) /\ UNCHANGED <<moodVars, examVars, chatVars, appVars>>
    \/ \E uid \in Users, i \in Slots, row \in TableRows :
           RlsUpdate(uid, i, row) /\ UNCHANGED <<moodVars, examVars, chatVars, appVars>>
    \/ \E uid \in Users, i \in Slots :
           RlsDelete(uid, i) /\ UNCHANGED <<moodVars, examVars, chatVars, appVars>>

SpecRls == InitRls /\ [][NextRls]_vars

-----------------------------------------------------------------------------
(* Claims on the mood classifier, under SpecMood *)

\* the keywords of each mood, as sets
KeywordSets ==
    [m \in Moods |->
        UNION {{moodKeywords[i].keywords[k] : k \in 1..Len(moodKeywords[i].keywords)} :
               i \in {j \in 1..Len(moodKeywords) : moodKeywords[j].mood = m}}]

KeywordsPresent(lower) == {k \in UNION {KeywordSets[m] : m \in Moods} : includes(lower, k)}

\* per mood, the number of distinct keywords present in the lowercased text
Counts(t) ==
    LET present == KeywordsPresent(toLowerCase(t))
    IN  [m \in Moods |-> Cardinality(KeywordSets[m] \cap present)]

FixedScore(m) ==
    CASE m = "Calm" -> 1 [] m = "Motivated" -> 2 [] m = "Happy" -> 3
      [] m = "Stressed" -> 4 [] m = "Lonely" -> 5

\* C1: analyzeMood returns one of the five moods with the score fixed for it
\* (Calm=1, Motivated=2, Happy=3, Stressed=4, Lonely=5) and no other pair.
C1_MoodAndScoreFixed ==
    analysis # NoAnalysis =>
        analysis \in {[mood |-> "Calm", score |-> 1],
                      [mood |-> "Motivated", score |-> 2],
                      [mood |-> "Happy", score |-> 3],
                      [mood |-> "Stressed", score |-> 4],
                      [mood |-> "Lonely", score |-> 5]}

C1_Witness == analysis # NoAnalysis /\ analysis.mood = "Happy" /\ text = "Joygood"

\* C2: when one mood has strictly more distinct keywords present in the
\* lowercased text than every other mood, analyzeMood returns that mood with
\* its fixed score.
C2_StrictMaximumWins ==
    analysis # NoAnalysis =>
        LET count == Counts(text)
        IN  \A a \in Moods :
                (\A b \in Moods \ {a} : count[a] > count[b])
                    => analysis = [mood |-> a, score |-> FixedScore(a)]

\* two moods present, the later declared one with more matches
C2_Witness ==
    /\ analysis # NoAnalysis
    /\ Counts(text) = [Happy |-> 1, Calm |-> 2, Motivated |-> 0, Stressed |-> 0, Lonely |-> 0]
    /\ analysis.mood = "Calm"

\* C3: a text in which no keyword of any mood occurs, the empty and the
\* whitespace-only text included, is classified Calm with score 1.
C3_NoKeywordIsCalm ==
    (analysis # NoAnalysis /\ Counts(text) = [m \in Moods |-> 0])
        => analysis = [mood |-> "Calm", score |-> 1]

C3_Witness ==
    /\ analysis # NoAnalysis
    /\ text = "  "
    /\ Counts(text) = [m \in Moods |-> 0]

\* position of a mood in the iteration order Happy, Calm, Motivated, Stressed, Lonely
OrderOf(m) ==
    CASE m = "Happy" -> 1 [] m = "Calm" -> 2 [] m = "Motivated" -> 3
      [] m = "Stressed" -> 4 [] m = "Lonely" -> 5

\* the moods whose count is the greatest one
Leaders(count) == {m \in Moods : \A b \in Moods : count[m] >= count[b]}

\* C4: when two or more moods share the greatest non-zero count, the one
\* first in the order Happy, Calm, Motivated, Stressed, Lonely is returned.
C4_TieFirstDeclaredWins ==
    analysis # NoAnalysis =>
        LET count == Counts(text)
        IN  (Cardinality(Leaders(count)) >= 2 /\ \E m \in Moods : count[m] > 0)
                => /\ analysis.mood \in Leaders(count)
                   /\ \A m \in Leaders(count) : OrderOf(analysis.mood) <= OrderOf(m)

\* Stressed and Lonely tie on one keyword each, a third mood has none
C4_Witness ==
    /\ analysis # NoAnalysis
    /\ Counts(text) = [Happy |-> 0, Calm |-> 0, Motivated |-> 0, Stressed |-> 1, Lonely |-> 1]
    /\ analysis.mood = "Stressed"

-----------------------------------------------------------------------------
(* Claims on the exam progress, under SpecExam *)

\* C5: for a row with max_marks > 0 and 0 < target_marks <= max_marks the value
\* shown is target/max*100 when obtained_marks is null and
\* min(obtained/target*100, 100) otherwise, always within 0..100; null/80/100
\* shows 80 and 95/80/100 shows 100.
C5_ProgressShown ==
    (/\ shown # NoBlock
     /\ exam.max_marks > 0
     /\ 0 < exam.target_marks
     /\ exam.target_marks <= exam.max_marks)
        => /\ shown.value.den > 0
           /\ 0 <= shown.value.num
           /\ shown.value.num <= 100 * shown.value.den
           /\ exam.obtained_marks = Null =>
                  shown.value.num * exam.max_marks
                      = 100 * exam.target_marks * shown.value.den
           /\ (exam.obtained_marks # Null /\ exam.obtained_marks[1] <= exam.target_marks) =>
                  shown.value.num * exam.target_marks
                      = 100 * exam.obtained_marks[1] * shown.value.den
           /\ (exam.obtained_marks # Null /\ exam.obtained_marks[1] > exam.target_marks) =>
                  shown.value.num = 100 * shown.value.den
           /\ exam = [max_marks |-> 100, target_marks |-> 80, obtained_marks |-> Null]
                  => shown.percent = 80
           /\ exam = [max_marks |-> 100, target_marks |-> 80, obtained_marks |-> <<95>>]
                  => shown.percent = 100

C5_Witness ==
    /\ shown # NoBlock
    /\ exam = [max_marks |-> 100, target_marks |-> 80, obtained_marks |-> <<95>>]
    /\ shown.percent = 100

-----------------------------------------------------------------------------
(* Claims on the add-exam dialog and the wellness points, under Spec *)

\* the number a numeric input holding s denotes: decimal digits, optionally
\* followed by e and a decimal exponent ("1e1" is 10); NaN for no digits
NumberOf(s) ==
    LET mantissa == DigitRun(s, 1, 0, 0)
        at       == mantissa.length + 1
        exponent == IF at <= Len(s) /\ SubSeq(s, at, at) \in {"e", "E"}
                    THEN DigitRun(s, at + 1, 0, 0)
                    ELSE [length |-> 0, value |-> 0]
    IN  IF mantissa.length = 0 THEN NaN
        ELSE <<mantissa.value * 10 ^ exponent.value>>

\* a form with an empty field, or with target marks above maximum marks
InvalidSubmission(fd) ==
    \/ fd.subject = "" \/ fd.date = Null \/ fd.maxMarks = "" \/ fd.targetMarks = ""
    \/ /\ NumberOf(fd.targetMarks) # NaN
       /\ NumberOf(fd.maxMarks) # NaN
       /\ NumberOf(fd.targetMarks)[1] > NumberOf(fd.maxMarks)[1]

\* an error toast is raised by the step
ErrorRaised ==
    \E t \in BagToSet(toasts') :
        t.title = "Error" /\ CopiesIn(t, toasts') > CopiesIn(t, toasts)

\* C6: an add-exam submission with target marks above maximum marks, or with
\* an empty subject, date, maximum or target, is rejected by the submit step
\* itself: the handler stays idle (so no insert, no read and no update of
\* wellness_points follows), the store is unchanged and an error toast is raised.
C6_InvalidSubmissionRejected ==
    [][(invoked'.exam = invoked.exam + 1 /\ InvalidSubmission(formData'))
          => /\ submit'.pc = Idle
             /\ loading' = loading
             /\ exam_rows' = exam_rows
             /\ profile' = profile
             /\ ErrorRaised]_vars

\* the points a handler adds
Delta(by) == CASE by = "journal" -> 5 [] by = "quick" -> 3 [] by = "exam" -> 2

\* C7: a journal submit and a quick action may both read the same stored
\* wellness_points v before either writes; then the later of the two writes
\* stores v plus its own delta only (v+5 or v+3), and that, not v+8, is what
\* the store holds after both.
C7_LostUpdate ==
    \A i, k \in 1..Len(ledger) :
        (/\ i < k
         /\ {ledger[i].by, ledger[k].by} = {"journal", "quick"}
         /\ ledger[i].ok /\ ledger[k].ok
         /\ ledger[i].read # Null
         /\ ledger[i].read = ledger[k].read)
            => /\ ledger[k].points = ledger[k].read[1] + Delta(ledger[k].by)
               /\ k = Len(ledger) =>
                      /\ profile.wellness_points = ledger[k].read[1] + Delta(ledger[k].by)
                      /\ profile.wellness_points # ledger[k].read[1] + 8

\* both handlers read 7, the quick action wrote 10, the journal submit then 12
C7_Witness ==
    /\ ~InFlight
    /\ Len(ledger) = 2
    /\ ledger[1].by = "quick" /\ ledger[2].by = "journal"
    /\ ledger[1].ok /\ ledger[2].ok
    /\ ledger[1].read = <<7>> /\ ledger[2].read = <<7>>
    /\ profile.wellness_points = 12

\* C8: when the handlers run one at a time and every remote call succeeds,
\* after j journal submits, q quick actions and x exams added the stored
\* wellness_points is P + 5j + 3q + 2x, P being what was stored before the
\* first of them.
C8_SequentialTotals ==
    (/\ ~InFlight
     /\ ~invoked.overlapped
     /\ failures = 0
     /\ ledger # <<>>)
        => profile.wellness_points
               = ledger[1].before + 5 * invoked.journal + 3 * invoked.quick
                                  + 2 * Len(exam_rows)

\* from 7, a journal submit and then an exam added, one after the other
C8_Witness ==
    /\ ~InFlight
    /\ ~invoked.overlapped
    /\ failures = 0
    /\ Len(ledger) = 2
    /\ ledger[1].before = 7
    /\ ledger[1].by = "journal" /\ ledger[2].by = "exam"
    /\ invoked.journal = 1 /\ Len(exam_rows) = 1
    /\ profile.wellness_points = 14

\* C9: no step lowers the stored wellness_points, in any interleaving of the
\* handlers and also when a read of the current points fails.
C9_PointsNeverDecrease ==
    [][profile'.wellness_points >= profile.wellness_points]_vars

-----------------------------------------------------------------------------
(* Claims on the chat function, under SpecChat *)

\* C10: a request other than the preflight that fails (no API key, the
\* completion API not ok or unreachable, an unreadable body) is answered with
\* {response}: the canned message of the request's mood when it is one of the
\* five, the default message otherwise.
C10_FallbackOnFailure ==
    (serving.pc = "done" /\ serving.threw # "nothing")
        => response = JsonResponse(FallbackMessage(IF request.readable
                                                   THEN request.mood
                                                   ELSE "undefined"))

-----------------------------------------------------------------------------
(* Claims on the journal submit and on failures, under Spec *)

\* the row a journal submit in flight has inserted
JournalEntryOf(j) == [content |-> j.text, mood_score |-> j.score, mood_name |-> j.mood]

\* C11: once the journal entry is inserted it stays stored as inserted: no step
\* removes or alters a stored entry, a submit that ends on a failed points
\* update or chat call leaves its entry in place, and a failed chat call
\* leaves the points the update stored.
C11_EntryKeptOnLaterFailure ==
    [][/\ Len(journal_entries') >= Len(journal_entries)
       /\ SubSeq(journal_entries', 1, Len(journal_entries)) = journal_entries
       /\ (journal.pc \in {"select", "update", "chat"} /\ journal'.pc = Idle
             /\ failures' > failures)
              => /\ journal_entries' = journal_entries
                 /\ journal_entries'[Len(journal_entries')] = JournalEntryOf(journal)
       /\ (journal.pc = "chat" /\ journal'.pc = Idle /\ failures' > failures)
              => profile' = profile]_vars

\* a journal submit whose chat call failed: entry and points are stored
C11_Witness ==
    /\ journal.pc = Idle
    /\ invoked.journal = 1
    /\ failures = 1
    /\ BagIn(Toast("Error", "chat-assistant failed"), toasts)
    /\ Len(journal_entries) = 1
    /\ journal_entries[1].content = "exam sad"
    /\ Len(ledger) = 1 /\ ledger[1].ok
    /\ profile.wellness_points = ledger[1].points

\* C12: when a remote call of a journal submit, a quick action or an add-exam
\* submit has failed, the view the action leaves (message list, current mood,
\* journal text; form fields) is the view it started from.  Stated for actions
\* that ran with no other handler in flight.
C12_ViewRestoredOnFailure ==
    [][~invoked'.overlapped =>
          /\ (journal.pc # Idle /\ journal'.pc = Idle /\ journal'.failed > 0)
                 => CardView(messages', currentMood', journalText') = journal.before
          /\ (quick.pc # Idle /\ quick'.pc = Idle /\ quick'.failed > 0)
                 => CardView(messages', currentMood', journalText') = quick.before
          /\ (submit.pc # Idle /\ submit'.pc = Idle /\ submit'.failed > 0)
                 => formData' = submit.before]_vars

\* the remote calls of each handler in the order of its code; the last ones
\* (fetchExams, fetchWellnessPoints) are started and not awaited
JournalChain ==
    <<"journal_entries.insert", "profiles.select", "profiles.update", "chat-assistant",
      "fetchWellnessPoints">>

QuickChain == <<"profiles.select", "profiles.update", "fetchWellnessPoints">>

SubmitChain ==
    <<"exams.insert", "profiles.select", "profiles.update", "fetchExams",
      "fetchWellnessPoints">>

IsPrefix(a, b) == Len(a) <= Len(b) /\ a = SubSeq(b, 1, Len(a))

\* the number of calls issued when the handler awaits the call named by pc
Awaited(chain, pc) ==
    CASE pc = "insert" -> 1
      [] pc = "select" -> IF chain[1] = "profiles.select" THEN 1 ELSE 2
      [] pc = "update" -> IF chain[1] = "profiles.select" THEN 2 ELSE 3
      [] pc = "chat"   -> 4

\* C13 as stated: each action issues at most three remote calls, one per step.
C13_AtMostThreeCalls ==
    /\ [](Len(journal.calls) <= 3 /\ Len(quick.calls) <= 3 /\ Len(submit.calls) <= 3)
    /\ [][/\ Len(journal'.calls) <= Len(journal.calls) + 1
          /\ Len(quick'.calls) <= Len(quick.calls) + 1
          /\ Len(submit'.calls) <= Len(submit.calls) + 1]_vars

\* C13 amended: each action issues the calls of its chain in order, none
\* twice, and awaits each before issuing the next: while it awaits its k-th
\* call it has issued exactly k.  A journal submit awaits four calls (entry
\* insert, points read, points update, chat call), an add-exam submit three,
\* a quick action two; on success the refresh fetches are then started
\* without being awaited, so up to five calls are issued per action.
C13_CallsInChainOrder ==
    /\ IsPrefix(journal.calls, JournalChain)
    /\ IsPrefix(quick.calls, QuickChain)
    /\ IsPrefix(submit.calls, SubmitChain)
    /\ journal.pc # Idle => Len(journal.calls) = Awaited(JournalChain, journal.pc)
    /\ quick.pc # Idle => Len(quick.calls) = Awaited(QuickChain, quick.pc)
    /\ submit.pc # Idle => Len(submit.calls) = Awaited(SubmitChain, submit.pc)

\* a journal submit that has issued its five calls
C13_Witness ==
    /\ journal.pc = Idle
    /\ journal.calls = JournalChain
    /\ Len(journal.calls) = 5

NoCallTwice(calls) == \A i, k \in 1..Len(calls) : calls[i] = calls[k] => i = k

\* C14: no action issues a remote call twice, an action one of whose remote
\* calls failed has raised exactly one error toast when it ends, and a failed
\* profile fetch raises an error toast.
C14_OneNotificationPerFailure ==
    /\ [](/\ NoCallTwice(journal.calls)
          /\ NoCallTwice(quick.calls)
          /\ NoCallTwice(submit.calls)
          /\ (journal.pc = Idle /\ journal.failed > 0) => journal.errors = 1
          /\ (quick.pc = Idle /\ quick.failed > 0) => quick.errors = 1
          /\ (submit.pc = Idle /\ submit.failed > 0) => submit.errors = 1)
    /\ [][(refresh'.select < refresh.select /\ failures' > failures) => ErrorRaised]_vars

-----------------------------------------------------------------------------
(* Claims on the storage policies, under SpecRls *)

\* C15: in each of the four tables a request of a user reads, inserts,
\* updates or deletes a row only when the row's user_id is that user: a
\* granted request touched the requester's own row only, and a step leaves
\* every row of another user as it was and adds no row owned by another user.
C15_OwnRowsOnly ==
    [][/\ audit'.granted =>
              /\ audit'.old \in {"", audit'.by}
              /\ audit'.new \in {"", audit'.by}
       /\ \A i \in Slots :
              rows'[i] # rows[i] =>
                  /\ rows[i] = NoRow \/ rows[i].user_id = audit'.by
                  /\ rows'[i] = NoRow \/ rows'[i].user_id = audit'.by]_vars

\* A asked to hand her journal entry over to B and was refused; B's entry and
\* hers are as they were
C15_Witness ==
    /\ table = "journal_entries"
    /\ audit = [by |-> "A", cmd |-> "UPDATE", old |-> "A", new |-> "B", granted |-> FALSE]
    /\ rows[1] = [user_id |-> "A", val |-> 0]
    /\ rows[2] = [user_id |-> "B", val |-> 0]

\* C16: a stored journal entry never changes; it can only be deleted, by its
\* owner.
C16_JournalEntryImmutable ==
    [][table = "journal_entries" =>
          \A i \in Slots :
              (rows[i] # NoRow /\ rows'[i] # rows[i]) =>
                  /\ rows'[i] = NoRow
                  /\ audit'.cmd = "DELETE"
                  /\ audit'.by = rows[i].user_id]_vars

-----------------------------------------------------------------------------
(* Claims on the profile fetch, the exam rows and the journal submit, under Spec *)

\* C17: the profile insert that fetchWellnessPoints issues after a missing-row
\* error, when the request itself does not fail, leaves the user with one
\* profile row, created with wellness_points 0, shows 0 points and raises no
\* error toast, also when several fetches overlap.
C17_LazyCreationOnce ==
    [][(refresh'.insert < refresh.insert /\ failures' = failures)
          => /\ profile'.exists
             /\ ~profile.exists => profile'.wellness_points = 0
             /\ wellnessPoints' = 0
             /\ ~ErrorRaised]_vars

\* C18: every stored exam row has max_marks > 0 and 0 < target_marks <=
\* max_marks, and its obtained_marks is null (an added exam has none, and
\* nothing sets it later).
C18_ExamRowsWellFormed ==
    \A i \in 1..Len(exam_rows) :
        /\ exam_rows[i].max_marks > 0
        /\ 0 < exam_rows[i].target_marks
        /\ exam_rows[i].target_marks <= exam_rows[i].max_marks
        /\ exam_rows[i].obtained_marks = Null

\* one exam stored, a submission with the target above the maximum refused
C18_Witness ==
    /\ submit.pc = Idle
    /\ invoked.exam = 2
    /\ Len(exam_rows) = 1
    /\ exam_rows[1].max_marks = 5 /\ exam_rows[1].target_marks = 3
    /\ BagIn(Toast("Error", "Target marks cannot be higher than maximum marks"), toasts)

\* C19: a journal submit classifies the text, then inserts the entry, then
\* reads the points, then writes them, then calls the chat function: the read
\* starts only from an insert that stored the entry, the write only after
\* the read, the chat call only from an update that returned without error
\* and stored the points; a failed insert ends the submit with the points
\* as they were, no entry stored and no further call issued.
C19_JournalStepOrder ==
    [][/\ journal'.pc # journal.pc =>
              /\ journal'.pc = "insert" =>
                     /\ journal.pc = Idle
                     /\ journal'.mood = analyzeMood(journal'.text).mood
                     /\ journal'.score = analyzeMood(journal'.text).score
                     /\ UNCHANGED <<journal_entries, profile>>
              /\ journal'.pc = "select" =>
                     /\ journal.pc = "insert"
                     /\ journal_entries' = Append(journal_entries, JournalEntryOf(journal))
                     /\ UNCHANGED profile
              /\ journal'.pc = "update" =>
                     /\ journal.pc = "select"
                     /\ UNCHANGED profile
              /\ journal'.pc = "chat" =>
                     /\ journal.pc = "update"
                     /\ failures' = failures
                     /\ profile.exists => profile'.wellness_points = journal.points
       /\ (journal.pc = "insert" /\ journal'.pc = Idle) =>
              /\ UNCHANGED <<profile, journal_entries, ledger>>
              /\ journal'.calls = <<"journal_entries.insert">>]_vars

\* a journal submit whose insert failed
C19_Witness ==
    /\ journal.pc = Idle
    /\ invoked.journal = 1
    /\ journal.calls = <<"journal_entries.insert">>
    /\ journal.failed = 1
    /\ journal_entries = <<>>
    /\ ledger = <<>>
    /\ profile.wellness_points = 7

-----------------------------------------------------------------------------
(* Claims on the loading flags, under FairSpec *)

\* C20: when every awaited remote call returns, a journal submit that has set
\* isLoading and an add-exam submit that has set loading clear the flag again
\* on every path, and the flag is never set while its handler is not in flight.
C20_LoadingCleared ==
    /\ [](journal.pc = Idle => ~isLoading)
    /\ [](submit.pc = Idle => ~loading)
    /\ isLoading ~> ~isLoading
    /\ loading ~> ~loading

\* a journal submit that failed and an add-exam submit have ended, flags clear
C20_Witness ==
    /\ journal.pc = Idle /\ invoked.journal = 1 /\ journal.failed = 1
    /\ submit.pc = Idle /\ submit.calls = SubmitChain
    /\ ~isLoading
    /\ ~loading

-----------------------------------------------------------------------------
(* Claims on the success toasts and the displayed points, under Spec *)

\* the toast that announces the points of a handler
PointsToast(by) ==
    CASE by = "journal" -> Toast("Journal saved!", "+5 wellness points earned!")
      [] by = "quick"   -> Toast("Great job!", "+3 wellness points for practicing self-care!")
      [] by = "exam"    -> Toast("Exam added successfully!",
                                 "+2 wellness points for staying organized!")

\* the positions in l of the wellness_points updates a handler issued
UpdatesBy(l, by) == {i \in 1..Len(l) : l[i].by = by}

\* the latest update of the handler succeeded, and stored what was stored
\* before it plus the handler's points
LatestUpdateAdded(l, by) ==
    /\ UpdatesBy(l, by) # {}
    /\ LET e == l[CHOOSE i \in UpdatesBy(l, by) : \A k \in UpdatesBy(l, by) : k <= i]
       IN  e.ok /\ e.points = e.before + Delta(by)

\* C21: a toast announcing +5, +3 or +2 points is raised only when the
\* profile update of that action succeeded and stored the previous total plus
\* that amount.
C21_PointsToastOnlyIfStored ==
    [][\A by \in {"journal", "quick", "exam"} :
           CopiesIn(PointsToast(by), toasts') > CopiesIn(PointsToast(by), toasts)
               => LatestUpdateAdded(ledger', by)]_vars

\* no handler and no fetch of the wellness points is in flight
Quiescent ==
    ~InFlight /\ ~dashLoading /\ refresh.select = 0 /\ refresh.insert = 0

\* C22: when the actions and their refreshes have ended (no remote call having
\* failed on the way) the displayed points are the stored wellness_points, and
\* an action that has changed the stored total starts a refresh when it ends.
C22_DisplayedIsStored ==
    /\ []((Quiescent /\ failures = 0 /\ Invocations > 0)
             => wellnessPoints = profile.wellness_points)
    /\ [][/\ (journal.pc # Idle /\ journal'.pc = Idle
                /\ \E i \in 1..Len(journal'.calls) : journal'.calls[i] = "chat-assistant")
              => (LatestUpdateAdded(ledger', "journal")
                     => refresh'.select > refresh.select)
          /\ (quick.pc # Idle /\ quick'.pc = Idle /\ LatestUpdateAdded(ledger', "quick"))
              => refresh'.select > refresh.select
          /\ (submit.pc = "update" /\ submit'.pc = Idle /\ LatestUpdateAdded(ledger', "exam"))
              => refresh'.select > refresh.select]_vars

=============================================================================
